---- MODULE Spec2Model ----
(***************************************************************************)
(* Weekly schedule reconciliation of the guild team-up pages.              *)
(*                                                                         *)
(* Texts are sequences of tokens (TLA+ strings): "" is <<>>, f-string      *)
(* concatenation is \o, and a blank is the token " ".  Dates are day       *)
(* offsets from 2025-01-01 (a Wednesday); strftime turns them into the     *)
(* texts the program stores as week keys and day labels.                   *)
(*                                                                         *)
(* src/app.py carries both sides of an unmerged change.  The model takes   *)
(* the definitions of the first side where the two sides define the same   *)
(* function (get_start_of_week, load_data, save_data) and the team forms,  *)
(* which only the second side has.                                         *)
(***************************************************************************)
EXTENDS Integers, Sequences, FiniteSets, TLC

VARIABLES today, store, data, team_view_week, last

vars == <<today, store, data, team_view_week, last>>

----------------------------------------------------------------------------
(* Bounds of the model *)

\* number of consecutive days the clock can show
NumDays == 9

\* the days of a window the leader types into: its Thursday and its Saturday
EditDays == {1, 3}

\* the names of the teams that get created, each once
TeamNames == {<<"team">>}

----------------------------------------------------------------------------
(* Program constants *)

MAX_TEAM_SIZE == 6

UNAVAILABLE_KEY == <<"__UNAVAILABLE__">>

\* length of a window, range(7)
WeekLen == 7

----------------------------------------------------------------------------
(* datetime.date *)

\* the days the clock can show, from 2025-09-10 (a Wednesday) on
Dates == 252 .. (252 + NumDays - 1)

\* every date a computation on a date of Dates can produce
AllDates == (252 - 2 * WeekLen) .. (252 + NumDays + 3 * WeekLen)

IsLeap(y) == (y % 4 = 0 /\ y % 100 # 0) \/ y % 400 = 0

DaysInMonth(y, m) ==
    IF m = 2 THEN (IF IsLeap(y) THEN 29 ELSE 28)
    ELSE IF m \in {4, 6, 9, 11} THEN 30 ELSE 31

RECURSIVE YmdFrom(_, _, _)
YmdFrom(y, m, r) ==
    IF r < DaysInMonth(y, m) THEN <<y, m, r + 1>>
    ELSE IF m = 12 THEN YmdFrom(y + 1, 1, r - DaysInMonth(y, m))
    ELSE YmdFrom(y, m + 1, r - DaysInMonth(y, m))

\* year, month and day of the date n days after 2025-01-01
Ymd(n) == YmdFrom(2025, 1, n)

\* date.weekday(): Monday is 0, Sunday is 6
weekday(n) == (n + 2) % 7

Pad2(k) == IF k < 10 THEN "0" \o ToString(k) ELSE ToString(k)

\* the calendar of AllDates, computed once
Calendar == [n \in AllDates |-> Ymd(n)]

\* strftime('%Y-%m-%d')
IsoText == [n \in AllDates |->
    <<ToString(Calendar[n][1]) \o "-" \o Pad2(Calendar[n][2])
        \o "-" \o Pad2(Calendar[n][3])>>]

strftime_Ymd(n) == IsoText[n]

\* strftime('%m-%d')
MonthDayText == [n \in AllDates |->
    Pad2(Calendar[n][2]) \o "-" \o Pad2(Calendar[n][3])]

strftime_md(n) == MonthDayText[n]

\* datetime.strptime(s, '%Y-%m-%d').date()
ParsedIso == [s \in {IsoText[n] : n \in AllDates} |->
    CHOOSE n \in AllDates : IsoText[n] = s]

strptime_Ymd(s) == ParsedIso[s]

----------------------------------------------------------------------------
(* Week Key Calculator *)

\* the copy the pages carry, and the second side of src/app.py
page_get_start_of_week(base_date) ==
    LET days_since_thu == (weekday(base_date) - 3) % 7
    IN  base_date - days_since_thu

\* src/app.py, first side
get_start_of_week(base_date) ==
    LET days_since_thu == (weekday(base_date) - 3) % 7
        start == base_date - days_since_thu
    IN  IF weekday(base_date) = 0 THEN start + 7 ELSE start

\* the seven weekday characters, written in ASCII
weekdays_zh == <<"1", "2", "3", "4", "5", "6", "7">>

\* f"<weekday>{weekdays_zh[d.weekday()]} ({d.strftime('%m-%d')})"
DayLabel == [d \in AllDates |->
    <<"weekday-" \o weekdays_zh[weekday(d) + 1], " ", "(" \o strftime_md(d) \o ")">>]

\* the list comprehension of generate_weekly_schedule_days, for every start
schedule_days == [start_of_week \in {d \in AllDates : d + WeekLen \in AllDates} |->
    [i \in 1..WeekLen |-> DayLabel[start_of_week + (i - 1)]]]

generate_weekly_schedule_days(start_date) ==
    schedule_days[get_start_of_week(start_date)]

----------------------------------------------------------------------------
(* Dictionaries: a dict is a function, {} is <<>>, a list of names is a set *)

setdefault(d, k, v) == IF k \in DOMAIN d THEN d ELSE (k :> v) @@ d

put(d, k, v) == (k :> v) @@ d

pop(d, k) == [f \in DOMAIN d \ {k} |-> d[f]]

get(d, k, v) == IF k \in DOMAIN d THEN d[k] ELSE v

\* d.update(e)
update(d, e) == e @@ d

\* ref.get() of an empty tree
None == [none |-> TRUE]

\* a stored value that is not a mapping
NotAMapping == (<<"not-a-mapping">> :> {})

isinstance_dict(x) == <<"not-a-mapping">> \notin DOMAIN x

\* a stored members value that is not a mapping (a list, a text)
NoMembersMapping == [k \in {"not-a-mapping"} |-> {}]

members_is_dict(x) == "not-a-mapping" \notin DOMAIN x

\* an element of the stored teams list that is not a team (null)
NullTeam == [null |-> TRUE]

\* st.session_state without "data"
NoData == [no_data |-> TRUE]

Sessions == {"s1", "s2"}

Members == {"A", "B"}

get_default_schedule_for_week ==
    [proposed_slots |-> <<>>,
     availability |-> (UNAVAILABLE_KEY :> {}),
     final_time |-> <<>>]

EmptyDoc == [teams |-> <<>>, members |-> <<>>]

----------------------------------------------------------------------------
(* Schema Migrator: load_data of src/app.py *)

start_of_this_week_str(day) == strftime_Ymd(get_start_of_week(day))

start_of_next_week_str(day) == strftime_Ymd(get_start_of_week(day) + 7)

valid_week_keys(day) == {start_of_this_week_str(day), start_of_next_week_str(day)}

\* a wrapper that files every legacy record under this week's key
migrate_schedule_under_this_week(team, day) ==
    IF "schedule" \in DOMAIN team /\ "schedules" \notin DOMAIN team
    THEN put(pop(team, "schedule"), "schedules",
             start_of_this_week_str(day)
                :> pop(team["schedule"], "schedule_start_date"))
    ELSE team

\* lines 134-137: old schedule -> schedules
migrate_schedule(team, day) ==
    IF "schedule" \in DOMAIN team /\ "schedules" \notin DOMAIN team
    THEN LET old_schedule == team["schedule"]
             start_date_key == get(old_schedule, "schedule_start_date",
                                   start_of_this_week_str(day))
         IN  put(pop(team, "schedule"), "schedules",
                 start_date_key :> pop(old_schedule, "schedule_start_date"))
    ELSE team

\* a loader that resets the fields of every record it keeps
backfill_resetting(rec) ==
    put(put(put(rec,
        "proposed_slots", <<>>),
        "availability", UNAVAILABLE_KEY :> {}),
        "final_time", <<>>)

\* lines 152-154
backfill(rec) ==
    setdefault(setdefault(setdefault(rec,
        "proposed_slots", <<>>),
        "availability", UNAVAILABLE_KEY :> {}),
        "final_time", <<>>)

\* lines 142-156
manage_schedules(team, day) ==
    LET current_schedules == team["schedules"]
        managed_schedules ==
            [week_key \in valid_week_keys(day) |->
                IF week_key \notin DOMAIN current_schedules
                THEN get_default_schedule_for_week
                ELSE backfill(current_schedules[week_key])]
    IN  put(team, "schedules", managed_schedules)

\* lines 159-162
migrate_remark(team) ==
    IF "boss_times" \in DOMAIN team /\ "team_remark" \notin DOMAIN team
    THEN put(pop(team, "boss_times"), "team_remark", team["boss_times"])
    ELSE setdefault(team, "team_remark", <<>>)

migrate_team(team, day) ==
    migrate_remark(
        manage_schedules(
            setdefault(migrate_schedule(team, day), "schedules", <<>>), day))

\* the body of the loop raises (AttributeError) on a value that is no dict
team_raises(team, day) ==
    \/ team = NullTeam
    \/ /\ "schedule" \in DOMAIN team /\ "schedules" \notin DOMAIN team
       /\ ~isinstance_dict(team["schedule"])
    \/ /\ "schedules" \in DOMAIN team
       /\ \/ ~isinstance_dict(team["schedules"])
          \/ \E k \in valid_week_keys(day) \cap DOMAIN team["schedules"] :
                ~isinstance_dict(team["schedules"][k])

load_raises(raw, day) ==
    /\ raw # None
    /\ "teams" \in DOMAIN raw
    /\ \E i \in DOMAIN raw["teams"] : team_raises(raw["teams"][i], day)

\* read_ok: ref.get() returned; otherwise it raised
load_data(raw, day, read_ok) ==
    IF ~read_ok THEN EmptyDoc
    ELSE IF raw = None THEN EmptyDoc
    ELSE IF load_raises(raw, day) THEN EmptyDoc
    ELSE LET d == setdefault(setdefault(raw, "teams", <<>>), "members", <<>>)
         IN  put(d, "teams",
                 [i \in DOMAIN d["teams"] |-> migrate_team(d["teams"][i], day)])

load_succeeds(raw, day, read_ok) ==
    read_ok /\ raw # None /\ ~load_raises(raw, day)

\* write_ok: ref.set() returned; otherwise it raised and st.error was shown
save_data(old_store, d, write_ok) == IF write_ok THEN d ELSE old_store

\* a reset that runs on every weekday
reset_applies_on_any_day(d, day) ==
    /\ get(d, "weekly_reset_marker", <<>>) # strftime_Ymd(day)
    /\ members_is_dict(get(d, "members", <<>>))

\* lines 188-194, and line 195 does not raise (a raise ends in line 201)
reset_applies(d, day) ==
    /\ weekday(day) = 0
    /\ get(d, "weekly_reset_marker", <<>>) # strftime_Ymd(day)
    /\ members_is_dict(get(d, "members", <<>>))

reset_weekly_availability_if_monday(d, day) ==
    IF ~reset_applies(d, day) THEN d
    ELSE put(put(d, "members",
                 [n \in DOMAIN d["members"] |->
                     put(put(put(d["members"][n],
                         "weekly_availability", <<>>),
                         "weekly_last_updated", <<>>),
                         "weekly_week_start", start_of_this_week_str(day))]),
             "weekly_reset_marker", strftime_Ymd(day))

----------------------------------------------------------------------------
(* Texts typed into the forms *)

RECURSIVE lstrip(_)
lstrip(t) == IF t # <<>> /\ Head(t) = " " THEN lstrip(Tail(t)) ELSE t

RECURSIVE rstrip(_)
rstrip(t) ==
    IF t # <<>> /\ t[Len(t)] = " " THEN rstrip(SubSeq(t, 1, Len(t) - 1)) ELSE t

\* str.strip()
strip(t) == rstrip(lstrip(t))

\* what a leader types into a time input: nothing, a blank, a time, and a
\* time between blanks that ends like the count of a final time option
RawTimes == {<<>>, <<" ">>, <<"21:00">>, <<" ", "21:30", " ", "(3ok)", " ">>}

\* f"{day} {time}"
SlotKey(day, time) == day \o <<" ">> \o time

----------------------------------------------------------------------------
(* The team list of the main page, src/app.py lines 634-849 *)

empty_member == [name |-> "", job |-> "", level |-> "", atk |-> ""]

RECURSIVE SetToSeq(_)
SetToSeq(S) ==
    IF S = {} THEN <<>>
    ELSE LET x == CHOOSE y \in S : TRUE IN <<x>> \o SetToSeq(S \ {x})

\* the rows of the data editor: the chosen names, then empty rows
updated_members(all_members, names) ==
    LET rows == SetToSeq(names)
    IN  [i \in 1..MAX_TEAM_SIZE |->
            IF i <= Len(rows)
            THEN put(all_members[rows[i]], "name", rows[i])
            ELSE empty_member]

\* line 773
current_team_members(team) ==
    {team["member"][i]["name"] : i \in DOMAIN team["member"]} \ {""}

\* line 641
schedule_to_display(team, view_week_start_str) ==
    get(team["schedules"], view_week_start_str, get_default_schedule_for_week)

\* lines 639 and 711
displayed_schedule_days(view_week_start_str) ==
    generate_weekly_schedule_days(strptime_Ymd(view_week_start_str))

\* line 772, as a list
RECURSIVE valid_times_from(_, _, _)
valid_times_from(i, days, old_proposed_slots) ==
    IF i > Len(days) THEN <<>>
    ELSE LET time == get(old_proposed_slots, days[i], <<>>)
         IN  (IF time # <<>> THEN <<SlotKey(days[i], time)>> ELSE <<>>)
             \o valid_times_from(i + 1, days, old_proposed_slots)

valid_proposed_times(days, old_proposed_slots) ==
    valid_times_from(1, days, old_proposed_slots)

Range(f) == {f[i] : i \in DOMAIN f}

\* lines 749-759, one day after the other
RECURSIVE reconcile_from(_, _, _, _, _, _)
reconcile_from(i, days, old_proposed_slots, new_proposed_slots, current_availability, updated_availability) ==
    IF i > Len(days) THEN updated_availability
    ELSE LET day == days[i]
             old_time == get(old_proposed_slots, day, <<>>)
             new_time == get(new_proposed_slots, day, <<>>)
             next ==
                IF old_time = new_time
                THEN IF old_time # <<>>
                     THEN put(updated_availability, SlotKey(day, old_time),
                              get(current_availability, SlotKey(day, old_time), {}))
                     ELSE updated_availability
                ELSE IF new_time # <<>>
                     THEN put(updated_availability, SlotKey(day, new_time), {})
                     ELSE updated_availability
         IN  reconcile_from(i + 1, days, old_proposed_slots, new_proposed_slots,
                            current_availability, next)

\* the keys of the new proposed slots
proposed_keys(days, new_proposed_slots) ==
    {SlotKey(days[i], new_proposed_slots[days[i]]) :
        i \in {j \in DOMAIN days : new_proposed_slots[days[j]] # <<>>}}

\* a reconciler that resets the responses of every slot, kept or not
reconcile_resetting_kept(days, old_proposed_slots, new_proposed_slots, current_availability) ==
    [k \in proposed_keys(days, new_proposed_slots) \cup {UNAVAILABLE_KEY} |->
        IF k = UNAVAILABLE_KEY
        THEN get(current_availability, UNAVAILABLE_KEY, {}) ELSE {}]

\* a reconciler that moves the responses of a day to its new time
reconcile_moving_responses(days, old_proposed_slots, new_proposed_slots, current_availability) ==
    [k \in proposed_keys(days, new_proposed_slots) \cup {UNAVAILABLE_KEY} |->
        IF k = UNAVAILABLE_KEY
        THEN get(current_availability, UNAVAILABLE_KEY, {})
        ELSE LET i == CHOOSE j \in DOMAIN days :
                        k = SlotKey(days[j], new_proposed_slots[days[j]])
             IN  get(current_availability,
                     SlotKey(days[i], get(old_proposed_slots, days[i], <<>>)),
                     {})]

\* a reconciler that empties the unavailable list
reconcile_clearing_unavailable(days, old_proposed_slots, new_proposed_slots, current_availability) ==
    reconcile_from(1, days, old_proposed_slots, new_proposed_slots,
                   current_availability, UNAVAILABLE_KEY :> {})

\* a reconciler that writes into the current availability
reconcile_keeping_orphans(days, old_proposed_slots, new_proposed_slots, current_availability) ==
    reconcile_from(1, days, old_proposed_slots, new_proposed_slots,
                   current_availability,
                   setdefault(current_availability, UNAVAILABLE_KEY, {}))

\* lines 748-759
reconcile(days, old_proposed_slots, new_proposed_slots, current_availability) ==
    reconcile_from(1, days, old_proposed_slots, new_proposed_slots,
                   current_availability,
                   UNAVAILABLE_KEY :> get(current_availability, UNAVAILABLE_KEY, {}))

\* lines 740-743
new_slots_of(days, raw) == [day \in Range(days) |->
    strip(raw[CHOOSE i \in DOMAIN days : days[i] = day])]

\* a form that saves whatever was submitted
slots_changed_always(new_proposed_slots, old_proposed_slots) == TRUE

\* line 745
slots_changed(new_proposed_slots, old_proposed_slots) ==
    new_proposed_slots # old_proposed_slots

\* the old slots whose responses an edit does not carry over
discarded_slots(days, old_proposed_slots, new_proposed_slots, current_availability) ==
    {k \in DOMAIN current_availability \ {UNAVAILABLE_KEY} :
        /\ current_availability[k] # {}
        /\ ~\E i \in DOMAIN days :
              /\ get(old_proposed_slots, days[i], <<>>) = new_proposed_slots[days[i]]
              /\ k = SlotKey(days[i], new_proposed_slots[days[i]])}

\* an edit that leaves final_time alone
apply_slot_edit_keeping_final(rec, new_proposed_slots, updated_availability) ==
    put(put(rec,
        "proposed_slots", new_proposed_slots),
        "availability", updated_availability)

\* an edit that resets the final time only when its slot is gone
apply_slot_edit_keeping_valid_final(rec, new_proposed_slots, updated_availability) ==
    put(put(put(rec,
        "proposed_slots", new_proposed_slots),
        "availability", updated_availability),
        "final_time", IF get(rec, "final_time", <<>>)
                            \in DOMAIN updated_availability \ {UNAVAILABLE_KEY}
                      THEN rec["final_time"] ELSE <<>>)

\* lines 761-764
apply_slot_edit(rec, new_proposed_slots, updated_availability) ==
    put(put(put(rec,
        "proposed_slots", new_proposed_slots),
        "availability", updated_availability),
        "final_time", <<>>)

\* a collector that trusts the unavailable multiselect
new_availability_unfiltered(times, selections, unavailable_selections) ==
    [k \in Range(times) \cup {UNAVAILABLE_KEY} |->
        IF k = UNAVAILABLE_KEY THEN unavailable_selections ELSE selections[k]]

\* lines 795-803
new_availability_of(times, selections, unavailable_selections) ==
    LET all_attending_members == UNION {selections[ts] : ts \in Range(times)}
    IN  [k \in Range(times) \cup {UNAVAILABLE_KEY} |->
            IF k = UNAVAILABLE_KEY
            THEN unavailable_selections \ all_attending_members
            ELSE selections[k]]

\* a collector that adds the submission to the stored lists
apply_availability_merging(rec, new_availability) ==
    LET old == get(rec, "availability", UNAVAILABLE_KEY :> {})
    IN  put(rec, "availability",
            [k \in DOMAIN old \cup DOMAIN new_availability |->
                get(old, k, {}) \cup get(new_availability, k, {})])

\* a collector that flips the membership of the submitted names
apply_availability_toggling(rec, new_availability) ==
    LET old == get(rec, "availability", UNAVAILABLE_KEY :> {})
    IN  put(rec, "availability",
            [k \in DOMAIN old \cup DOMAIN new_availability |->
                (get(old, k, {}) \ get(new_availability, k, {}))
                \cup (get(new_availability, k, {}) \ get(old, k, {}))])

\* lines 805-811
apply_availability(rec, new_availability) ==
    LET with_dict == setdefault(rec, "availability", UNAVAILABLE_KEY :> {})
    IN  put(with_dict, "availability",
            update(with_dict["availability"], new_availability))

undecided == <<"undecided">>

\* "(N<people can>)"
CountToken(n) == "(" \o ToString(n) \o "ok)"

CountTokens == {CountToken(n) : n \in 0..MAX_TEAM_SIZE}

\* line 827
final_option(ts, current_availability) ==
    ts \o <<" ", CountToken(Cardinality(get(current_availability, ts, {})))>>

final_options(times, current_availability) ==
    <<undecided>> \o
    [j \in DOMAIN times |-> final_option(times[j], current_availability)]

\* the rest of the text from position p on is \s*\(\d+<people can>\)$
count_suffix(t, p) ==
    /\ p <= Len(t)
    /\ t[Len(t)] \in CountTokens
    /\ \A j \in p..(Len(t) - 1) : t[j] = " "

\* lines 841-845: re.match(r"^(.*?)\s*\(\d+<people can>\)$", selected_str)
final_time_to_save(selected_str) ==
    IF selected_str = undecided THEN <<>>
    ELSE IF \E p \in 1..Len(selected_str) : count_suffix(selected_str, p)
    THEN LET p == CHOOSE q \in 1..Len(selected_str) :
                    /\ count_suffix(selected_str, q)
                    /\ \A r \in 1..(q - 1) : ~count_suffix(selected_str, r)
         IN  strip(SubSeq(selected_str, 1, p - 1))
    ELSE <<>>

\* a confirmation that also drops the responses of the record
apply_final_time_clearing_availability(rec, final_time) ==
    put(put(rec, "final_time", final_time),
        "availability", UNAVAILABLE_KEY :> {})

\* line 846
apply_final_time(rec, final_time) == put(rec, "final_time", final_time)

\* lines 856-870
new_team(name, day) ==
    LET start_of_this_week == get_start_of_week(day)
        empty_slots(start) ==
            [d \in Range(generate_weekly_schedule_days(start)) |-> <<>>]
    IN  [team_name |-> name,
         team_remark |-> <<>>,
         member |-> [i \in 1..MAX_TEAM_SIZE |-> empty_member],
         schedules |->
            (start_of_this_week_str(day) :>
                put(get_default_schedule_for_week, "proposed_slots",
                    empty_slots(start_of_this_week)))
            @@
            (start_of_next_week_str(day) :>
                put(get_default_schedule_for_week, "proposed_slots",
                    empty_slots(start_of_this_week + 7)))]

\* lines 635-636, for every team of the rerun
render_view(view, d, day) ==
    [idx \in DOMAIN d["teams"] |->
        IF idx \in DOMAIN view THEN view[idx] ELSE start_of_this_week_str(day)]

\* data["teams"][idx]["schedules"][week] = rec
with_record(d, idx, week, rec) ==
    put(d, "teams",
        [d["teams"] EXCEPT ![idx] =
            put(@, "schedules", put(@["schedules"], week, rec))])

----------------------------------------------------------------------------
(* Handlers.  last records the handler that ran most recently, the record  *)
(* it was shown and what the user submitted.                               *)

\* the members registered before the first team is created
RegisteredDoc ==
    [teams |-> <<>>,
     members |-> [n \in Members |-> [job |-> "job", level |-> "", atk |-> ""]]]

\* lines 355-360: the first run of a session
SessionStart(s, read_ok, write_ok) ==
    /\ data[s] = NoData
    /\ LET loaded == load_data(store, today, read_ok)
           d == reset_weekly_availability_if_monday(loaded, today)
       IN  /\ data' = [data EXCEPT ![s] = d]
           /\ store' = IF reset_applies(loaded, today)
                       THEN save_data(store, d, write_ok) ELSE store
           /\ team_view_week' =
                [team_view_week EXCEPT ![s] = render_view(<<>>, d, today)]
           /\ last' = [op |-> "start", s |-> s, day |-> today, raw |-> store,
                       read_ok |-> read_ok,
                       ok |-> load_succeeds(store, today, read_ok),
                       \* line 196: save_data was called
                       saved |-> reset_applies(loaded, today)]
    /\ UNCHANGED today

\* lines 852-873: add_team_form
AddTeam(s, name, write_ok) ==
    /\ data[s] # NoData
    /\ name \in TeamNames
    /\ \A i \in DOMAIN data[s]["teams"] : data[s]["teams"][i]["team_name"] # name
    /\ LET d == put(data[s], "teams",
                    Append(data[s]["teams"], new_team(name, today)))
       IN  /\ data' = [data EXCEPT ![s] = d]
           /\ store' = save_data(store, d, write_ok)
           /\ team_view_week' =
                [team_view_week EXCEPT ![s] = render_view(@, d, today)]
           /\ last' = [op |-> "add_team", s |-> s, day |-> today]
    /\ UNCHANGED today

\* lines 681-693: team_form, save
SaveTeam(s, idx, names, write_ok) ==
    /\ data[s] # NoData
    /\ idx \in DOMAIN data[s]["teams"]
    /\ names \subseteq DOMAIN data[s]["members"]
    /\ Cardinality(names) <= MAX_TEAM_SIZE
    /\ LET d == put(data[s], "teams",
                    [data[s]["teams"] EXCEPT ![idx] =
                        put(@, "member",
                            updated_members(data[s]["members"], names))])
       IN  /\ data' = [data EXCEPT ![s] = d]
           /\ store' = save_data(store, d, write_ok)
           /\ last' = [op |-> "team", s |-> s, idx |-> idx]
    /\ UNCHANGED <<today, team_view_week>>

\* what a rerun of the page shows of team idx: lines 638-641, 711, 726-727,
\* 772-773
page_of(s, idx) ==
    LET team == data[s]["teams"][idx]
        week == team_view_week[s][idx]
        shown == schedule_to_display(team, week)
        days == displayed_schedule_days(week)
        old_proposed_slots == get(shown, "proposed_slots", <<>>)
    IN  [team |-> team,
         view_week_start_str |-> week,
         schedule_to_display |-> shown,
         displayed_schedule_days |-> days,
         old_proposed_slots |-> old_proposed_slots,
         current_availability |-> get(shown, "availability", <<>>),
         valid_proposed_times |-> valid_proposed_times(days, old_proposed_slots),
         current_team_members |-> current_team_members(team)]

\* lines 739-767: captain_time_form; typed[i] is the text of the i-th time
\* input, the other inputs keep the value they display
EditSlots(s, idx, typed, write_ok) ==
    /\ data[s] # NoData
    /\ idx \in DOMAIN data[s]["teams"]
    /\ \E page \in {page_of(s, idx)} :
       \E raw \in {[i \in DOMAIN page.displayed_schedule_days |->
                     IF i \in EditDays THEN typed[i]
                     ELSE get(page.old_proposed_slots,
                              page.displayed_schedule_days[i], <<>>)]} :
       \E new_proposed_slots \in {new_slots_of(page.displayed_schedule_days, raw)} :
          /\ page.view_week_start_str \in DOMAIN page.team["schedules"]
          /\ IF slots_changed(new_proposed_slots, page.old_proposed_slots)
             THEN \E d \in {with_record(data[s], idx, page.view_week_start_str,
                        apply_slot_edit(
                            page.team["schedules"][page.view_week_start_str],
                            new_proposed_slots,
                            reconcile(page.displayed_schedule_days,
                                page.old_proposed_slots, new_proposed_slots,
                                page.current_availability)))} :
                    /\ data' = [data EXCEPT ![s] = d]
                    /\ store' = save_data(store, d, write_ok)
             ELSE UNCHANGED <<data, store>>
          /\ last' = [op |-> "edit", s |-> s, idx |-> idx,
                      week |-> page.view_week_start_str,
                      changed_days |->
                        {i \in DOMAIN page.displayed_schedule_days :
                            get(page.old_proposed_slots,
                                page.displayed_schedule_days[i], <<>>)
                              # new_proposed_slots[page.displayed_schedule_days[i]]},
                      old_final_time |->
                        get(page.schedule_to_display, "final_time", <<>>),
                      discarded |->
                        /\ slots_changed(new_proposed_slots, page.old_proposed_slots)
                        /\ discarded_slots(page.displayed_schedule_days,
                              page.old_proposed_slots, new_proposed_slots,
                              page.current_availability) # {},
                      new_proposed_slots |-> new_proposed_slots,
                      applied |-> slots_changed(new_proposed_slots,
                                                page.old_proposed_slots),
                      write_ok |-> write_ok,
                      \* line 766: st.success
                      st_success |-> slots_changed(new_proposed_slots,
                                                   page.old_proposed_slots)]
    /\ UNCHANGED <<today, team_view_week>>

\* lines 775-815: availability_form; picks[j] is the multiselect of the
\* j-th offered slot
SaveAvailability(s, idx, picks, unavailable_selections, write_ok) ==
    /\ data[s] # NoData
    /\ idx \in DOMAIN data[s]["teams"]
    /\ \E page \in {page_of(s, idx)} :
          /\ page.current_team_members # {}
          /\ page.valid_proposed_times # <<>>
          /\ unavailable_selections \subseteq page.current_team_members
          /\ \A j \in DOMAIN picks :
                IF j \in DOMAIN page.valid_proposed_times
                THEN picks[j] \subseteq page.current_team_members
                ELSE picks[j] = {}
          /\ page.view_week_start_str \in DOMAIN page.team["schedules"]
          /\ \E selections \in {[ts \in Range(page.valid_proposed_times) |->
                    picks[CHOOSE j \in DOMAIN page.valid_proposed_times :
                            page.valid_proposed_times[j] = ts]]} :
             \E d \in {with_record(data[s], idx, page.view_week_start_str,
                        apply_availability(
                            page.team["schedules"][page.view_week_start_str],
                            new_availability_of(page.valid_proposed_times,
                                selections, unavailable_selections)))} :
                /\ data' = [data EXCEPT ![s] = d]
                /\ store' = save_data(store, d, write_ok)
                /\ last' = [op |-> "avail", s |-> s, idx |-> idx,
                            week |-> page.view_week_start_str,
                            old_unavailable |->
                              get(page.current_availability, UNAVAILABLE_KEY, {}),
                            selections |-> selections,
                            unavailable_selections |-> unavailable_selections,
                            \* the submission before this one was the same
                            repeated |->
                              /\ last.op = "avail"
                              /\ last.s = s /\ last.idx = idx
                              /\ last.week = page.view_week_start_str
                              /\ last.selections = selections
                              /\ last.unavailable_selections
                                    = unavailable_selections,
                            write_ok |-> write_ok,
                            \* line 814: st.success
                            st_success |-> TRUE]
    /\ UNCHANGED <<today, team_view_week>>

\* lines 823-849: final_time_form; choice is the index of the selected
\* option, 0 for the first one
ConfirmFinal(s, idx, choice, write_ok) ==
    /\ data[s] # NoData
    /\ idx \in DOMAIN data[s]["teams"]
    /\ \E page \in {page_of(s, idx)} :
       \E options \in {final_options(page.valid_proposed_times,
                                     page.current_availability)} :
          /\ page.valid_proposed_times # <<>>
          /\ choice + 1 \in DOMAIN options
          /\ page.view_week_start_str \in DOMAIN page.team["schedules"]
          /\ \E d \in {with_record(data[s], idx, page.view_week_start_str,
                        apply_final_time(
                            page.team["schedules"][page.view_week_start_str],
                            final_time_to_save(options[choice + 1])))} :
                /\ data' = [data EXCEPT ![s] = d]
                /\ store' = save_data(store, d, write_ok)
          /\ last' = [op |-> "final", s |-> s, idx |-> idx,
                      week |-> page.view_week_start_str,
                      selected_str |-> options[choice + 1],
                      write_ok |-> write_ok,
                      \* line 848: st.success
                      st_success |-> TRUE]
    /\ UNCHANGED <<today, team_view_week>>

----------------------------------------------------------------------------
(* One session on the main page, from the registered members on *)

\* the day of the session: Monday 2025-09-15
SessionDay == {257}

TeamIdx == 1..Cardinality(TeamNames)

Init ==
    /\ today \in SessionDay
    /\ store = RegisteredDoc
    /\ data = [s \in Sessions |-> NoData]
    /\ team_view_week = [s \in Sessions |-> <<>>]
    /\ last = [op |-> "init"]

Next ==
    \/ SessionStart("s1", TRUE, TRUE)
    \/ \E name \in TeamNames : AddTeam("s1", name, TRUE)
    \/ \E idx \in TeamIdx, names \in SUBSET Members :
            SaveTeam("s1", idx, names, TRUE)
    \/ \E idx \in TeamIdx, typed \in [EditDays -> RawTimes] :
            EditSlots("s1", idx, typed, TRUE)
    \/ \E idx \in TeamIdx, unav \in SUBSET Members :
        \E picks \in [1..Cardinality(EditDays) -> SUBSET Members] :
            SaveAvailability("s1", idx, picks, unav, TRUE)
    \/ \E idx \in TeamIdx, choice \in 0..Cardinality(EditDays) :
            ConfirmFinal("s1", idx, choice, TRUE)

Spec == Init /\ [][Next]_vars

----------------------------------------------------------------------------
(* Sessions that start on different days over stored documents of every    *)
(* shape the loader migrates                                               *)

\* lines 126 and 628: date.today() moves on
Tick ==
    /\ today + 1 \in Dates
    /\ today' = today + 1
    /\ UNCHANGED <<store, data, team_view_week, last>>

\* a record with one offered slot, one response and a final time
StoredRecord(start_of_week) ==
    LET days == schedule_days[start_of_week]
        slot == SlotKey(days[1], <<"21:00">>)
    IN  [proposed_slots |->
            [d \in Range(days) |-> IF d = days[1] THEN <<"21:00">> ELSE <<>>],
         availability |-> (slot :> {"A"}) @@ (UNAVAILABLE_KEY :> {"B"}),
         final_time |-> slot]

\* Thursday 2025-09-11 and the Thursdays around it
Thursdays == {d \in AllDates : weekday(d) = 3 /\ d + WeekLen \in AllDates}

StoredWeeks == {d \in Thursdays : d - WeekLen \in Dates \/ d \in Dates}

StoredTeams ==
    \* written by the current version for two adjacent weeks
    {[team_name |-> <<"team">>, team_remark |-> <<>>,
      member |-> [i \in 1..MAX_TEAM_SIZE |-> empty_member],
      schedules |-> (strftime_Ymd(w) :> StoredRecord(w))
                    @@ (strftime_Ymd(w + 7) :> get_default_schedule_for_week)]
        : w \in StoredWeeks}
    \cup
    \* the legacy shape, with and without its start date
    {[team_name |-> <<"team">>, boss_times |-> <<"21:00">>,
      schedule |-> put(StoredRecord(w), "schedule_start_date", strftime_Ymd(w))]
        : w \in StoredWeeks}
    \cup
    {[team_name |-> <<"team">>,
      schedule |-> StoredRecord(CHOOSE w \in StoredWeeks : w \in Dates)]}
    \cup
    \* a record without availability and final_time, and no schedules at all
    {[team_name |-> <<"team">>,
      schedules |-> (strftime_Ymd(w) :>
                        [proposed_slots |-> StoredRecord(w).proposed_slots])]
        : w \in StoredWeeks}
    \cup
    {[team_name |-> <<"team">>]}
    \cup
    \* a schedules value that is no mapping
    {[team_name |-> <<"team">>, schedules |-> NotAMapping]}

\* a team as the current version writes it
GoodTeam ==
    LET w == CHOOSE x \in StoredWeeks : x \in Dates
    IN  [team_name |-> <<"good">>, team_remark |-> <<"remark">>,
         member |-> updated_members(RegisteredDoc["members"], {"A"}),
         schedules |-> (strftime_Ymd(w) :> StoredRecord(w))
                       @@ (strftime_Ymd(w + 7) :> StoredRecord(w + 7))]

StoredDocs ==
    {None, RegisteredDoc}
    \cup {put(RegisteredDoc, "teams", <<t>>) : t \in StoredTeams}
    \* a good team next to another one, good or not
    \cup {put(RegisteredDoc, "teams", <<GoodTeam, t>>) :
            t \in {GoodTeam, NullTeam,
                   [team_name |-> <<"team">>, schedules |-> NotAMapping],
                   [team_name |-> <<"team">>, schedule |-> NotAMapping]}}
    \* documents without teams, without members, with members of another type
    \cup {[members |-> RegisteredDoc["members"]],
          [teams |-> <<GoodTeam>>],
          [teams |-> <<GoodTeam>>, members |-> NoMembersMapping]}

InitLoad ==
    /\ today \in Dates
    /\ store \in StoredDocs
    /\ data = [s \in Sessions |-> NoData]
    /\ team_view_week = [s \in Sessions |-> <<>>]
    /\ last = [op |-> "init"]

NextLoad ==
    \/ \E s \in Sessions, read_ok \in BOOLEAN : SessionStart(s, read_ok, TRUE)
    \/ Tick

SpecLoad == InitLoad /\ [][NextLoad]_vars

----------------------------------------------------------------------------
(* Week keys                                                               *)

\* the Thursday that opens the seven-day window holding d
startOfWindow(d) ==
    CHOOSE t \in AllDates : weekday(t) = 3 /\ t <= d /\ d < t + WeekLen

weekKey(d) == strftime_Ymd(startOfWindow(d))

\* C1: for the current date d, get_start_of_week(d) is a Thursday t with
\* t <= d < t + 7 days, in app.py and in the page's copy alike
C1_StartIsThursdayOnOrBefore ==
    /\ get_start_of_week(today) = startOfWindow(today)
    /\ page_get_start_of_week(today) = startOfWindow(today)

\* the schedules a stored team has once app.py lines 134-139 have run
stored_schedules(team, day) ==
    get(setdefault(migrate_schedule(team, day), "schedules", <<>>),
        "schedules", <<>>)

\* C2: after a load that succeeded on day d, every team's schedules holds
\* exactly the keys weekKey(d) and weekKey(d + 7): a stored record under one
\* of them is kept, a missing one is the empty default record, and no other
\* key is left
C2_LoadedKeysAreThisAndNextWindow ==
    (last.op = "start" /\ last.ok) =>
        \A i \in DOMAIN data[last.s]["teams"] :
            LET schedules == data[last.s]["teams"][i]["schedules"]
                stored == stored_schedules(last.raw["teams"][i], last.day)
                required == {weekKey(last.day), weekKey(last.day + WeekLen)}
            IN  /\ DOMAIN schedules = required
                /\ \A k \in required \ DOMAIN stored :
                        schedules[k] = get_default_schedule_for_week

\* the same statement over the keys app.py computes at lines 126-130
LoadedKeysAreTheValidWeekKeys ==
    (last.op = "start" /\ last.ok) =>
        \A i \in DOMAIN data[last.s]["teams"] :
            LET schedules == data[last.s]["teams"][i]["schedules"]
                stored == stored_schedules(last.raw["teams"][i], last.day)
                required == valid_week_keys(last.day)
            IN  /\ DOMAIN schedules = required
                /\ \A k \in required \ DOMAIN stored :
                        schedules[k] = get_default_schedule_for_week

\* a load that succeeded on a Monday over a team stored with other weeks
LoadedOnMonday ==
    /\ last.op = "start" /\ last.ok
    /\ weekday(last.day) = 0
    /\ last.raw["teams"] # <<>>

----------------------------------------------------------------------------
(* Slot edits                                                              *)

\* the record a handler worked on, in the session data d
viewed(d, l) == d[l.s]["teams"][l.idx]["schedules"][l.week]

days_of(l) == displayed_schedule_days(l.week)

old_time_of(rec, day) == get(rec["proposed_slots"], day, <<>>)

changed_in(rec, l) ==
    {i \in DOMAIN days_of(l) :
        old_time_of(rec, days_of(l)[i]) # l.new_proposed_slots[days_of(l)[i]]}

SlotEditCarriesKept ==
    last'.op = "edit" =>
        LET before == viewed(data, last')["availability"]
            after == viewed(data', last')["availability"]
            days == days_of(last')
            new == last'.new_proposed_slots
            changed == changed_in(viewed(data, last'), last')
        IN  /\ \A i \in DOMAIN days \ changed :
                    new[days[i]] # <<>> =>
                        /\ SlotKey(days[i], new[days[i]]) \in DOMAIN before
                        /\ SlotKey(days[i], new[days[i]]) \in DOMAIN after
                        /\ after[SlotKey(days[i], new[days[i]])]
                             = before[SlotKey(days[i], new[days[i]])]
            /\ Cardinality(changed) = 1 =>
                    \A k \in DOMAIN before \
                            {SlotKey(days[i],
                                     old_time_of(viewed(data, last'), days[i]))
                                : i \in changed} :
                        k \in DOMAIN after /\ after[k] = before[k]

\* C3: in a slot edit, the members stored under the SlotKey of a day whose
\* time is the same non-empty text before and after are carried over
\* unchanged, and when exactly one day changes the members of every other
\* SlotKey are unchanged
C3_KeptSlotsKeepTheirResponses == [][SlotEditCarriesKept]_vars

\* an applied edit of exactly one day, next to a kept slot with responses
C3_Witness ==
    /\ last.op = "edit" /\ last.applied
    /\ Cardinality(last.changed_days) = 1
    /\ \E i \in DOMAIN days_of(last) \ last.changed_days :
          /\ last.new_proposed_slots[days_of(last)[i]] # <<>>
          /\ viewed(data, last)["availability"]
                [SlotKey(days_of(last)[i],
                         last.new_proposed_slots[days_of(last)[i]])] # {}

SlotEditDropsChanged ==
    last'.op = "edit" =>
        LET after == viewed(data', last')["availability"]
            days == days_of(last')
            new == last'.new_proposed_slots
        IN  \A i \in changed_in(viewed(data, last'), last') :
                LET old_time == old_time_of(viewed(data, last'), days[i])
                IN  /\ old_time # <<>> =>
                            SlotKey(days[i], old_time) \notin DOMAIN after
                    /\ new[days[i]] # <<>> =>
                            /\ SlotKey(days[i], new[days[i]]) \in DOMAIN after
                            /\ after[SlotKey(days[i], new[days[i]])] = {}

\* C4: in a slot edit, the old SlotKey of every day whose time changed is
\* absent from the new availability, and the new SlotKey, if the new time
\* is not empty, is present with no members
C4_ChangedSlotsLoseTheirResponses == [][SlotEditDropsChanged]_vars

\* an edit moved a day with responses to another time
C4_Witness ==
    /\ last.op = "edit" /\ last.discarded
    /\ \E i \in last.changed_days :
          /\ last.new_proposed_slots[days_of(last)[i]] # <<>>
          /\ viewed(data, last)["availability"]
                [SlotKey(days_of(last)[i],
                         last.new_proposed_slots[days_of(last)[i]])] = {}

SlotEditKeepsUnavailable ==
    last'.op = "edit" =>
        /\ UNAVAILABLE_KEY \in DOMAIN viewed(data, last')["availability"]
        /\ UNAVAILABLE_KEY \in DOMAIN viewed(data', last')["availability"]
        /\ viewed(data', last')["availability"][UNAVAILABLE_KEY]
             = viewed(data, last')["availability"][UNAVAILABLE_KEY]

\* C5: every slot edit leaves the members under the UNAVAILABLE sentinel of
\* the record as they were
C5_EditKeepsUnavailable == [][SlotEditKeepsUnavailable]_vars

\* an applied edit of a record with an unavailable member
C5_Witness ==
    /\ last.op = "edit" /\ last.applied
    /\ viewed(data, last)["availability"][UNAVAILABLE_KEY] # {}

\* C6: after an applied slot edit the keys of the record's availability are
\* the SlotKeys of the non-empty new proposed times plus the UNAVAILABLE
\* sentinel, no more and no less
C6_KeysAreProposedPlusUnavailable ==
    (last.op = "edit" /\ last.applied) =>
        DOMAIN viewed(data, last)["availability"]
            = proposed_keys(days_of(last), last.new_proposed_slots)
              \cup {UNAVAILABLE_KEY}

\* an applied edit withdrew a slot with responses and kept or added another
C6_Witness ==
    /\ last.op = "edit" /\ last.applied /\ last.discarded
    /\ \E i \in last.changed_days :
            last.new_proposed_slots[days_of(last)[i]] = <<>>
    /\ proposed_keys(days_of(last), last.new_proposed_slots) # {}

SameSlotsEditIsNoOp ==
    (/\ last'.op = "edit"
     /\ last'.new_proposed_slots = viewed(data, last')["proposed_slots"])
        => (data' = data /\ store' = store)

\* C7: a slot edit whose new proposed slots equal the old ones changes
\* nothing of the record and writes nothing
C7_SameSlotsEditIsNoOp == [][SameSlotsEditIsNoOp]_vars

\* the same slots were submitted over a record with responses and a final
\* time
C7_Witness ==
    /\ last.op = "edit" /\ ~last.applied
    /\ last.new_proposed_slots = viewed(data, last)["proposed_slots"]
    /\ viewed(data, last)["final_time"] # <<>>
    /\ \E k \in DOMAIN viewed(data, last)["availability"] :
            viewed(data, last)["availability"][k] # {}

----------------------------------------------------------------------------
(* Final time and availability saves                                       *)

\* every record of every team of a document
records_of(d) ==
    UNION {{d["teams"][i]["schedules"][w] :
                w \in DOMAIN d["teams"][i]["schedules"]} :
            i \in DOMAIN d["teams"]}

final_time_is_valid(rec) ==
    \/ rec["final_time"] = <<>>
    \/ \E day \in DOMAIN rec["proposed_slots"] :
          /\ rec["proposed_slots"][day] # <<>>
          /\ rec["final_time"] = SlotKey(day, rec["proposed_slots"][day])

\* C8: in every state reached from a newly created team by slot edits,
\* availability saves and final time confirmations, the final_time of a
\* record is empty or the SlotKey of a slot the record proposes; a slot edit
\* that removes the confirmed slot leaves it empty
C8_FinalTimeIsEmptyOrProposed ==
    /\ \A s \in Sessions :
          data[s] # NoData =>
              \A rec \in records_of(data[s]) : final_time_is_valid(rec)
    /\ \A rec \in records_of(store) : final_time_is_valid(rec)
    /\ (last.op = "edit" /\ last.applied) =>
            viewed(data, last)["final_time"] = <<>>

\* a slot edit removed the slot that had been confirmed
C8_Witness ==
    /\ last.op = "edit" /\ last.applied
    /\ last.old_final_time # <<>>
    /\ last.old_final_time \notin DOMAIN viewed(data, last)["availability"]
    /\ viewed(data, last)["final_time"] = <<>>

\* C9: after an availability save, a member who was selected for the slots
\* S and not marked unavailable is in the entries of S and in no other
\* entry of the record, and the record has no entry for a day without an
\* offered time
C9_SelectedMemberIsInExactlyTheSelectedSlots ==
    last.op = "avail" =>
        LET rec == viewed(data, last)
            availability == rec["availability"]
        IN  /\ \A m \in Members \ last.unavailable_selections :
                  \A k \in DOMAIN availability :
                      m \in availability[k] <=>
                          (k \in DOMAIN last.selections /\ m \in last.selections[k])
            /\ DOMAIN availability \ {UNAVAILABLE_KEY}
                 = proposed_keys(days_of(last), rec["proposed_slots"])
            /\ DOMAIN last.selections
                 = proposed_keys(days_of(last), rec["proposed_slots"])

\* a member answered for one of two offered slots they had both answered
\* before, on a week with days without a time
C9_Witness ==
    /\ last.op = "avail"
    /\ \E m \in Members \ last.unavailable_selections :
        \E k1, k2 \in DOMAIN last.selections :
          /\ m \in last.selections[k1]
          /\ m \notin last.selections[k2]
          /\ m \in viewed(data, last)["availability"][k1]
    /\ \E day \in DOMAIN viewed(data, last)["proposed_slots"] :
            viewed(data, last)["proposed_slots"][day] = <<>>

\* C10: after an availability save, the UNAVAILABLE members are those
\* marked unavailable in the submission and selected for no slot; a member
\* who was UNAVAILABLE and is now selected for a slot is no longer
\* UNAVAILABLE and is in that slot
C10_UnavailableIffMarkedAndNowhereSelected ==
    last.op = "avail" =>
        LET availability == viewed(data, last)["availability"]
            attending == UNION {last.selections[k] : k \in DOMAIN last.selections}
        IN  /\ \A m \in Members :
                  m \in availability[UNAVAILABLE_KEY] <=>
                      (m \in last.unavailable_selections /\ m \notin attending)
            /\ \A m \in last.old_unavailable :
                  \A k \in DOMAIN last.selections :
                      m \in last.selections[k] =>
                          /\ m \notin availability[UNAVAILABLE_KEY]
                          /\ m \in availability[k]

\* a member who was UNAVAILABLE is selected for a slot and still marked,
\* while another stays UNAVAILABLE
C10_Witness ==
    /\ last.op = "avail"
    /\ \E m \in last.old_unavailable \cap last.unavailable_selections :
        \E k \in DOMAIN last.selections :
          /\ m \in last.selections[k]
          /\ m \in viewed(data, last)["availability"][k]
          /\ m \notin viewed(data, last)["availability"][UNAVAILABLE_KEY]
    /\ viewed(data, last)["availability"][UNAVAILABLE_KEY] # {}

----------------------------------------------------------------------------
(* Membership invariants of the availability                               *)

no_double_membership(rec) ==
    \A k \in DOMAIN rec["availability"] \ {UNAVAILABLE_KEY} :
        rec["availability"][k]
            \cap get(rec["availability"], UNAVAILABLE_KEY, {}) = {}

\* C11: in every state reached from a newly created team by slot edits,
\* availability saves and final time confirmations, no member is both in
\* the UNAVAILABLE set of a record and in the members of one of its
\* ordinary SlotKeys
C11_NobodyIsUnavailableAndAttending ==
    /\ \A s \in Sessions :
          data[s] # NoData =>
              \A rec \in records_of(data[s]) : no_double_membership(rec)
    /\ \A rec \in records_of(store) : no_double_membership(rec)

\* a member who was not UNAVAILABLE was submitted both as attending a slot
\* and as unavailable
C11_Witness ==
    /\ last.op = "avail"
    /\ \E m \in last.unavailable_selections \ last.old_unavailable :
        \E k \in DOMAIN last.selections :
          /\ m \in last.selections[k]
          /\ m \in viewed(data, last)["availability"][k]

ResubmissionChangesNothing ==
    (last'.op = "avail" /\ last'.repeated) =>
        /\ viewed(data', last') = viewed(data, last')
        /\ data' = data

\* C12: an availability save is idempotent: the same selections and the
\* same unavailable marks submitted twice in a row leave the record the
\* first submission produced
C12_AvailabilitySaveIsIdempotent == [][ResubmissionChangesNothing]_vars

\* the same submission, with an attending and an unavailable member, was
\* saved twice in a row
C12_Witness ==
    /\ last.op = "avail" /\ last.repeated
    /\ viewed(data, last)["availability"][UNAVAILABLE_KEY] # {}
    /\ \E k \in DOMAIN last.selections : last.selections[k] # {}

\* the ordinary SlotKeys of a record under which m is stored
attending_keys(rec, m) ==
    {k \in DOMAIN rec["availability"] \ {UNAVAILABLE_KEY} :
        m \in rec["availability"][k]}

\* C13: in every reachable state a member is stored under at most one
\* ordinary SlotKey of a record
C13_AttendingIsSingleChoice ==
    \A s \in Sessions :
        data[s] # NoData =>
            \A rec \in records_of(data[s]) : \A m \in Members :
                Cardinality(attending_keys(rec, m)) <= 1

----------------------------------------------------------------------------
(* Three teams that share their members                                    *)

\* the options of the participation count, line 413
MaxParticipation == 2

CapTeamNames == <<<<"team-1">>, <<"team-2">>, <<"team-3">>>>

\* the member every team lists
CapRoster == {"A"}

\* a team made by add_team_form, with a roster saved by team_form and the
\* first day offered at 21:00 by captain_time_form
offered_team(name, all_members, day) ==
    LET team == new_team(name, day)
        week == start_of_this_week_str(day)
        days == displayed_schedule_days(week)
        rec == team["schedules"][week]
        new_proposed_slots ==
            [d \in Range(days) |-> IF d = days[1] THEN <<"21:00">> ELSE <<>>]
    IN  put(put(team, "member", updated_members(all_members, CapRoster)),
            "schedules",
            put(team["schedules"], week,
                apply_slot_edit(rec, new_proposed_slots,
                    reconcile(days, rec["proposed_slots"], new_proposed_slots,
                              rec["availability"]))))

CapDoc(day) ==
    LET d == reset_weekly_availability_if_monday(
                load_data(RegisteredDoc, day, TRUE), day)
    IN  put(d, "teams",
            [i \in DOMAIN CapTeamNames |->
                offered_team(CapTeamNames[i], d["members"], day)])

InitCap ==
    /\ today \in SessionDay
    /\ store = CapDoc(today)
    /\ data = [s \in Sessions |-> IF s = "s1" THEN CapDoc(today) ELSE NoData]
    /\ team_view_week =
            [s \in Sessions |->
                IF s = "s1" THEN render_view(<<>>, CapDoc(today), today)
                ELSE <<>>]
    /\ last = [op |-> "init"]

NextCap ==
    \E idx \in DOMAIN CapTeamNames, unav \in SUBSET Members :
    \E picks \in [1..Cardinality(EditDays) -> SUBSET Members] :
        SaveAvailability("s1", idx, picks, unav, TRUE)

SpecCap == InitCap /\ [][NextCap]_vars

\* the teams in whose record of a week m attends a slot
commitments(d, m, week) ==
    {i \in DOMAIN d["teams"] :
        /\ week \in DOMAIN d["teams"][i]["schedules"]
        /\ attending_keys(d["teams"][i]["schedules"][week], m) # {}}

\* C14: a submission that would raise the commitments of a member in one
\* week above the cap is rejected and writes nothing, so that in no
\* reachable state a member is committed more often than the cap in a week
C14_CommitmentsStayWithinCap ==
    \A m \in Members :
        \A week \in {start_of_this_week_str(today), start_of_next_week_str(today)} :
            /\ Cardinality(commitments(store, m, week)) <= MaxParticipation
            /\ \A s \in Sessions :
                  data[s] # NoData =>
                    Cardinality(commitments(data[s], m, week)) <= MaxParticipation

----------------------------------------------------------------------------
(* Two sessions over one stored document, with store calls that may fail   *)

SharedDoc(day) ==
    LET d == reset_weekly_availability_if_monday(
                load_data(RegisteredDoc, day, TRUE), day)
    IN  put(d, "teams", <<offered_team(<<"team">>, d["members"], day)>>)

\* what the leader types into the first time input
SharedTimes == {<<>>, <<"21:00">>}

InitShared ==
    /\ today \in SessionDay
    /\ store = SharedDoc(today)
    /\ data = [s \in Sessions |-> NoData]
    /\ team_view_week = [s \in Sessions |-> <<>>]
    /\ last = [op |-> "init"]

NextShared ==
    \/ \E s \in Sessions, read_ok \in BOOLEAN, write_ok \in BOOLEAN :
            SessionStart(s, read_ok, write_ok)
    \/ \E s \in Sessions, name \in TeamNames, write_ok \in BOOLEAN :
            AddTeam(s, name, write_ok)
    \/ \E s \in Sessions, time \in SharedTimes, write_ok \in BOOLEAN :
            EditSlots(s, 1, [i \in EditDays |-> IF i = 1 THEN time ELSE <<>>],
                      write_ok)
    \/ \E s \in Sessions, write_ok \in BOOLEAN :
       \E pick \in SUBSET CapRoster, unav \in SUBSET CapRoster :
            SaveAvailability(s, 1,
                [j \in 1..Cardinality(EditDays) |-> IF j = 1 THEN pick ELSE {}],
                unav, write_ok)
    \/ \E s \in Sessions, choice \in 0..1, write_ok \in BOOLEAN :
            ConfirmFinal(s, 1, choice, write_ok)

SpecShared == InitShared /\ [][NextShared]_vars

FormOps == {"edit", "avail", "final"}

\* the record of the store after the form of l wrote rec into it alone
written_by(old, rec, op) ==
    IF op = "edit" THEN rec
    ELSE IF op = "avail" THEN put(old, "availability", rec["availability"])
    ELSE put(old, "final_time", rec["final_time"])

WriteComesFromTheStore ==
    (last'.op \in FormOps /\ store' # store) =>
        /\ last'.idx \in DOMAIN store["teams"]
        /\ last'.week \in DOMAIN store["teams"][last'.idx]["schedules"]
        /\ store' = with_record(store, last'.idx, last'.week,
                        written_by(
                            store["teams"][last'.idx]["schedules"][last'.week],
                            viewed(data', last'), last'.op))

\* C15: a slot edit, availability save or final time confirmation writes a
\* document computed from the store as it is at the time of the action:
\* but for what the form itself sets, the written document is the stored
\* one, so that it never brings back a value another session has replaced
C15_WriteComesFromTheStore == [][WriteComesFromTheStore]_vars

NoWriteAfterFailedRead ==
    (\/ last'.op = "start" /\ ~last'.read_ok
     \/ /\ last.op = "start" /\ ~last.read_ok
        /\ last'.op # "start" /\ last'.s = last.s)
        => store' = store

\* C16: a session whose store read failed in load_data writes nothing to
\* the store, neither in the Monday reset of its start nor in the save of
\* the operation that follows
C16_NoWriteAfterFailedRead == [][NoWriteAfterFailedRead]_vars

FailedWriteAborts ==
    (/\ last'.op \in FormOps /\ ~last'.write_ok
     /\ last'.op = "edit" => last'.applied)
        => (~last'.st_success /\ data' = data)

\* C17: when the store write of a slot edit, availability save or final
\* time confirmation fails, the operation reports no success and leaves
\* the record of the session as it was
C17_FailedWriteAborts == [][FailedWriteAborts]_vars

----------------------------------------------------------------------------
(* The loader over stored documents of any shape                           *)

\* C18: load_data never raises: for every stored shape and for a failing
\* read it returns a document with a teams list and a members mapping
C18_LoadReturnsTeamsAndMembers ==
    \A read_ok \in BOOLEAN :
        LET d == load_data(store, today, read_ok)
        IN  /\ "teams" \in DOMAIN d
            /\ \A i \in DOMAIN d["teams"] : d["teams"][i] # NullTeam
            /\ "members" \in DOMAIN d
            /\ members_is_dict(d["members"])

record_fields == {"proposed_slots", "availability", "final_time"}

\* the record new holds everything the stored record old holds
keeps_stored_fields(old, new) ==
    \A f \in record_fields \cap DOMAIN old : f \in DOMAIN new /\ new[f] = old[f]

\* the team loaded holds the roster and the live records of the stored one
keeps_stored_team(team, loaded, day) ==
    /\ loaded["team_name"] = team["team_name"]
    /\ "member" \in DOMAIN team =>
            "member" \in DOMAIN loaded /\ loaded["member"] = team["member"]
    /\ \A k \in valid_week_keys(day) \cap DOMAIN stored_schedules(team, day) :
            keeps_stored_fields(stored_schedules(team, day)[k],
                                loaded["schedules"][k])

\* C19: a malformed schedule record of one team degrades that record
\* only: load_data still returns the roster and the schedule data of every
\* other team, and all members, as stored
C19_MalformedRecordDegradesAlone ==
    (store # None /\ "teams" \in DOMAIN store) =>
        LET d == load_data(store, today, TRUE)
        IN  /\ "members" \in DOMAIN store => d["members"] = store["members"]
            /\ \A i \in DOMAIN store["teams"] :
                    ~team_raises(store["teams"][i], today) =>
                        /\ i \in DOMAIN d["teams"]
                        /\ keeps_stored_team(store["teams"][i], d["teams"][i],
                                             today)

\* C20: for every stored record under one of the two live week keys,
\* load_data keeps the stored proposed_slots, availability and final_time
\* and only adds a missing field with its default
C20_LoadKeepsStoredFields ==
    load_succeeds(store, today, TRUE) =>
        \A i \in DOMAIN load_data(store, today, TRUE)["teams"] :
            LET stored == stored_schedules(store["teams"][i], today)
                loaded == load_data(store, today, TRUE)["teams"][i]["schedules"]
            IN  \A k \in valid_week_keys(today) \cap DOMAIN stored :
                    /\ keeps_stored_fields(stored[k], loaded[k])
                    /\ DOMAIN loaded[k] = DOMAIN stored[k] \cup record_fields
                    /\ \A f \in record_fields \ DOMAIN stored[k] :
                            loaded[k][f] = get_default_schedule_for_week[f]

\* a session loaded a live record that was stored with responses and
\* another one stored without availability and final_time
C20_Witness ==
    /\ last.op = "start" /\ last.ok
    /\ \E i \in DOMAIN data[last.s]["teams"] :
        \E k \in valid_week_keys(last.day)
                \cap DOMAIN stored_schedules(last.raw["teams"][i], last.day) :
          /\ "availability" \notin
                DOMAIN stored_schedules(last.raw["teams"][i], last.day)[k]
          /\ data[last.s]["teams"][i]["schedules"][k]["availability"]
                = (UNAVAILABLE_KEY :> {})
          /\ \E day \in DOMAIN
                data[last.s]["teams"][i]["schedules"][k]["proposed_slots"] :
                data[last.s]["teams"][i]["schedules"][k]["proposed_slots"][day]
                    # <<>>

----------------------------------------------------------------------------
(* Legacy records                                                          *)

\* a stored team of the legacy shape: one schedule field, no schedules map
is_legacy(team) ==
    /\ team # NullTeam
    /\ "schedule" \in DOMAIN team
    /\ "schedules" \notin DOMAIN team

\* the key a legacy record is filed under: the recorded start date, or the
\* first week key of the day of the load
legacy_key(old_schedule, day) ==
    IF "schedule_start_date" \in DOMAIN old_schedule
    THEN old_schedule["schedule_start_date"]
    ELSE start_of_this_week_str(day)

\* the stored fields of the legacy record are in rec, each as stored
holds_legacy_fields(old_schedule, rec) ==
    /\ \A f \in record_fields :
            f \in DOMAIN old_schedule =>
                f \in DOMAIN rec /\ rec[f] = old_schedule[f]
    /\ "schedule_start_date" \notin DOMAIN rec

\* the statement of C21 as written: the legacy record is in the loaded
\* schedules under its key, whatever that key is
LegacyRecordIsAlwaysLoaded ==
    (last.op = "start" /\ last.ok) =>
        \A i \in DOMAIN data[last.s]["teams"] :
            is_legacy(last.raw["teams"][i]) =>
                LET old_schedule == last.raw["teams"][i]["schedule"]
                    team == data[last.s]["teams"][i]
                    key == legacy_key(old_schedule, last.day)
                IN  /\ "schedule" \notin DOMAIN team
                    /\ key \in DOMAIN team["schedules"]
                    /\ holds_legacy_fields(old_schedule, team["schedules"][key])

\* C21: for a team stored in the legacy shape, load_data removes schedule
\* and files the record under its recorded schedule_start_date, or under
\* the first week key of the day when none is recorded; the record's
\* proposed slots, availability and final time are in the loaded schedules
\* exactly when that key is one of the two week keys of the day, and
\* otherwise the record is pruned and both keys hold the empty default
C21_LegacyRecordIsLoadedUnderALiveKey ==
    (last.op = "start" /\ last.ok) =>
        \A i \in DOMAIN data[last.s]["teams"] :
            is_legacy(last.raw["teams"][i]) =>
                LET old_schedule == last.raw["teams"][i]["schedule"]
                    team == data[last.s]["teams"][i]
                    key == legacy_key(old_schedule, last.day)
                IN  /\ "schedule" \notin DOMAIN team
                    /\ DOMAIN team["schedules"] = valid_week_keys(last.day)
                    /\ \A k \in valid_week_keys(last.day) :
                          IF k = key
                          THEN holds_legacy_fields(old_schedule,
                                                   team["schedules"][k])
                          ELSE team["schedules"][k]
                                    = get_default_schedule_for_week

\* a legacy record with a recorded start date was loaded under the second
\* week key of the day, with the response of member A
C21_Witness ==
    /\ last.op = "start" /\ last.ok
    /\ \E i \in DOMAIN data[last.s]["teams"] :
          /\ is_legacy(last.raw["teams"][i])
          /\ "schedule_start_date" \in DOMAIN last.raw["teams"][i]["schedule"]
          /\ legacy_key(last.raw["teams"][i]["schedule"], last.day)
                = start_of_next_week_str(last.day)
          /\ \E k \in DOMAIN data[last.s]["teams"][i]["schedules"] :
                /\ k = start_of_next_week_str(last.day)
                /\ data[last.s]["teams"][i]["schedules"][k]["final_time"] # <<>>
                /\ \E slot \in DOMAIN
                        data[last.s]["teams"][i]["schedules"][k]["availability"] :
                      "A" \in data[last.s]["teams"][i]["schedules"][k]
                                    ["availability"][slot]

\* a legacy record whose recorded start date is no week key of the day of
\* the load: the loaded schedules hold two empty records
C21_PrunedLegacyRecord ==
    /\ last.op = "start" /\ last.ok
    /\ \E i \in DOMAIN data[last.s]["teams"] :
          /\ is_legacy(last.raw["teams"][i])
          /\ legacy_key(last.raw["teams"][i]["schedule"], last.day)
                \notin valid_week_keys(last.day)
          /\ \A k \in DOMAIN data[last.s]["teams"][i]["schedules"] :
                data[last.s]["teams"][i]["schedules"][k]
                    = get_default_schedule_for_week

----------------------------------------------------------------------------
(* The page modules of src/pages: the manual team page and the AI team     *)
(* page read and write the document the main page reads and writes         *)

\* pages/1_*.py lines 65-74: load_data of the manual team pages
page_load_data(raw, read_ok) ==
    IF ~read_ok THEN EmptyDoc
    ELSE IF raw = None THEN EmptyDoc
    ELSE setdefault(setdefault(raw, "teams", <<>>), "members", <<>>)

\* pages/1_*.py lines 130-132
page_start_of_this_week_str(day) == strftime_Ymd(page_get_start_of_week(day))

page_start_of_next_week_str(day) ==
    strftime_Ymd(page_get_start_of_week(day) + 7)

\* pages/1_*.py lines 258-270
page_new_team(name, day) ==
    LET start_of_this_week == page_get_start_of_week(day)
        empty_slots(start) ==
            [d \in Range(generate_weekly_schedule_days(start)) |-> <<>>]
    IN  [team_name |-> name,
         team_remark |-> <<>>,
         member |-> [i \in 1..MAX_TEAM_SIZE |-> empty_member],
         schedules |->
            (page_start_of_this_week_str(day) :>
                put(get_default_schedule_for_week, "proposed_slots",
                    empty_slots(start_of_this_week)))
            @@
            (page_start_of_next_week_str(day) :>
                put(get_default_schedule_for_week, "proposed_slots",
                    empty_slots(start_of_this_week + 7)))]

\* pages/1_*.py lines 137-140, for every team of the run
page_render_view(view, d, day) ==
    [idx \in DOMAIN d["teams"] |->
        IF idx \in DOMAIN view THEN view[idx]
        ELSE page_start_of_this_week_str(day)]

\* pages/2_*.py lines 103-105: get_start_of_week of the AI team pages
ai_page_get_start_of_week(base_date) ==
    LET days_since_thu == (weekday(base_date) - 3) % 7
    IN  base_date - days_since_thu

\* pages/2_*.py lines 83-92; read_ok: ref.child("ai_teams").get() returned
load_ai_teams(raw, read_ok) ==
    IF ~read_ok THEN <<>>
    ELSE IF raw = None THEN <<>>
    ELSE get(raw, "ai_teams", <<>>)

\* pages/2_*.py lines 95-100: the write replaces the ai_teams child of the
\* stored document and nothing else
save_ai_teams(old_store, ai_data, write_ok) ==
    IF ~write_ok THEN old_store
    ELSE IF old_store = None THEN [ai_teams |-> ai_data]
    ELSE put(old_store, "ai_teams", ai_data)

\* pages/2_*.py lines 60-71: load_data of the AI team pages
ai_page_load_data(raw, read_ok) ==
    IF ~read_ok THEN EmptyDoc
    ELSE IF raw = None THEN EmptyDoc
    ELSE setdefault(setdefault(raw, "teams", <<>>), "members", <<>>)

\* the teams the AI page stores for one week
AiResults == {<<>>, <<[team_name |-> <<"ai-team">>, member |-> <<"A">>]>>}

\* pages/1_*.py lines 124-140: a run of the manual team page without a
\* submitted form; its document is local to the run
PageRun(s, read_ok) ==
    /\ \E d \in {page_load_data(store, read_ok)} :
          /\ team_view_week' =
                [team_view_week EXCEPT ![s] = page_render_view(@, d, today)]
          /\ last' = [op |-> "page_run", s |-> s, day |-> today,
                      raw |-> store, read_ok |-> read_ok, loaded |-> d]
    /\ UNCHANGED <<today, store, data>>

\* pages/1_*.py lines 124-140 and 253-272: a run of the manual team page
\* with add_team_form submitted
PageAddTeam(s, name, read_ok, write_ok) ==
    /\ name \in TeamNames
    /\ \E loaded \in {page_load_data(store, read_ok)} :
          /\ \A i \in DOMAIN loaded["teams"] :
                loaded["teams"][i]["team_name"] # name
          /\ \E d \in {put(loaded, "teams",
                           Append(loaded["teams"], page_new_team(name, today)))} :
                /\ store' = save_data(store, d, write_ok)
                /\ team_view_week' =
                      [team_view_week EXCEPT
                            ![s] = page_render_view(@, loaded, today)]
                /\ last' = [op |-> "page_add_team", s |-> s, day |-> today,
                            raw |-> store, read_ok |-> read_ok,
                            loaded |-> loaded,
                            team |-> page_new_team(name, today),
                            write_ok |-> write_ok]
    /\ UNCHANGED <<today, data>>

\* pages/2_*.py lines 229-230 and 533-537, 541-545: a run of the AI team
\* page that stores the teams of the shown week; next_week is the radio
\* choice of lines 247-262
AiSaveWeek(s, next_week, result, read_ok, write_ok) ==
    /\ \E week_key \in {strftime_Ymd(ai_page_get_start_of_week(today)
                                     + (IF next_week THEN WeekLen ELSE 0))} :
       \E ai_data \in {put(load_ai_teams(store, read_ok), week_key, result)} :
          /\ store' = save_ai_teams(store, ai_data, write_ok)
          /\ last' = [op |-> "ai_save", s |-> s, day |-> today,
                      week |-> week_key, ai_data |-> ai_data,
                      write_ok |-> write_ok]
    /\ data' = [data EXCEPT ![s] = IF @ = NoData
                                   THEN ai_page_load_data(store, read_ok)
                                   ELSE @]
    /\ UNCHANGED <<today, team_view_week>>

\* what is stored before the first page opens
PageTeams ==
    {t \in StoredTeams : t["team_name"] = <<"team">> /\ "schedules" \in DOMAIN t
                         /\ isinstance_dict(t["schedules"])}
    \cup {t \in StoredTeams : "schedule" \in DOMAIN t
                              /\ "boss_times" \notin DOMAIN t}

PageDocs ==
    {RegisteredDoc, put(RegisteredDoc, "teams", <<GoodTeam>>)}
    \cup {put(RegisteredDoc, "teams", <<t>>) : t \in PageTeams}

InitPages ==
    /\ today \in Dates
    /\ store \in PageDocs
    /\ data = [s \in Sessions |-> NoData]
    /\ team_view_week = [s \in Sessions |-> <<>>]
    /\ last = [op |-> "init"]

NextPages ==
    \/ SessionStart("s1", TRUE, TRUE)
    \/ \E name \in TeamNames : AddTeam("s1", name, TRUE)
    \/ \E read_ok \in BOOLEAN : PageRun("s2", read_ok)
    \/ \E name \in TeamNames : PageAddTeam("s2", name, TRUE, TRUE)
    \/ \E next_week \in BOOLEAN, result \in AiResults :
            AiSaveWeek("s2", next_week, result, TRUE, TRUE)

SpecPages == InitPages /\ [][NextPages]_vars

\* every team of the document d has the two week keys of the day and no
\* other, each with its three fields
teams_are_migrated(d, day) ==
    \A i \in DOMAIN d["teams"] :
        /\ "schedules" \in DOMAIN d["teams"][i]
        /\ DOMAIN d["teams"][i]["schedules"] = valid_week_keys(day)
        /\ \A k \in DOMAIN d["teams"][i]["schedules"] :
                record_fields \subseteq DOMAIN d["teams"][i]["schedules"][k]

\* C22: every read of the store goes through the migrator: after load_data
\* of the main page and after load_data of a page module, each team has
\* exactly the two live week keys, each with proposed_slots, availability
\* and final_time
C22_EveryReadIsMigrated ==
    /\ (last.op = "start" /\ last.ok) =>
            teams_are_migrated(data[last.s], last.day)
    /\ (last.op \in {"page_run", "page_add_team"} /\ last.read_ok) =>
            teams_are_migrated(last.loaded, last.day)

\* the main page alone: what its load_data returns is migrated
MainPageReadIsMigrated ==
    (last.op = "start" /\ last.ok) =>
        teams_are_migrated(data[last.s], last.day)

----------------------------------------------------------------------------
(* The day labels of a record                                              *)

\* the seven day labels of the window that starts on the day of week_key
window_labels(week_key) == Range(schedule_days[strptime_Ymd(week_key)])

\* C23: in every reachable state, the keys of proposed_slots of every
\* record a session holds are exactly the seven day labels of the record's
\* window, Thursday through the following Wednesday, never a partial or
\* empty set, also for the records load_data adds
C23_ProposedSlotsHaveTheSevenDayLabels ==
    \A s \in Sessions :
        data[s] # NoData =>
            \A i \in DOMAIN data[s]["teams"] :
                \A k \in DOMAIN data[s]["teams"][i]["schedules"] :
                    DOMAIN data[s]["teams"][i]["schedules"][k]["proposed_slots"]
                        = window_labels(k)

\* the same statement over the stored week records that were stored with
\* the seven labels: load_data keeps them
LoadedStoredRecordsKeepTheirLabels ==
    (last.op = "start" /\ last.ok) =>
        \A i \in DOMAIN data[last.s]["teams"] :
            LET stored == stored_schedules(last.raw["teams"][i], last.day)
            IN  \A k \in DOMAIN data[last.s]["teams"][i]["schedules"] :
                    (/\ k \in DOMAIN stored
                     /\ "proposed_slots" \in DOMAIN stored[k]
                     /\ DOMAIN stored[k]["proposed_slots"] = window_labels(k))
                    => DOMAIN data[last.s]["teams"][i]["schedules"][k]
                                ["proposed_slots"] = window_labels(k)

----------------------------------------------------------------------------
(* Final time confirmation                                                 *)

\* the documents of the sessions differ at most in the field f of the
\* record the handler l worked on
only_field_differs(old_data, new_data, l, f) ==
    \A s \in Sessions :
        IF s # l.s THEN new_data[s] = old_data[s]
        ELSE /\ DOMAIN new_data[s] = DOMAIN old_data[s]
             /\ \A key \in DOMAIN old_data[s] \ {"teams"} :
                    new_data[s][key] = old_data[s][key]
             /\ DOMAIN new_data[s]["teams"] = DOMAIN old_data[s]["teams"]
             /\ \A i \in DOMAIN old_data[s]["teams"] :
                  LET old_team == old_data[s]["teams"][i]
                      team == new_data[s]["teams"][i]
                  IN  IF i # l.idx THEN team = old_team
                      ELSE /\ DOMAIN team = DOMAIN old_team
                           /\ \A key \in DOMAIN old_team \ {"schedules"} :
                                team[key] = old_team[key]
                           /\ DOMAIN team["schedules"]
                                = DOMAIN old_team["schedules"]
                           /\ \A k \in DOMAIN old_team["schedules"] :
                                IF k # l.week
                                THEN team["schedules"][k]
                                        = old_team["schedules"][k]
                                ELSE /\ DOMAIN team["schedules"][k]
                                        = DOMAIN old_team["schedules"][k]
                                     /\ \A g \in DOMAIN team["schedules"][k] \ {f} :
                                            team["schedules"][k][g]
                                                = old_team["schedules"][k][g]

FinalChangesOnlyFinalTime ==
    last'.op = "final" =>
        /\ only_field_differs(data, data', last', "final_time")
        /\ viewed(data', last')["final_time"]
                = final_time_to_save(last'.selected_str)
        /\ store' = data'[last'.s]

\* C24: a final time confirmation changes only final_time of the viewed
\* record: that record's availability and proposed_slots, and every other
\* record and team, are as before, and the document is saved
C24_FinalChangesOnlyFinalTime == [][FinalChangesOnlyFinalTime]_vars

\* a final time was confirmed for a slot member A attends, in a record
\* where member B is unavailable
C24_Witness ==
    /\ last.op = "final"
    /\ viewed(data, last)["final_time"] # <<>>
    /\ "A" \in viewed(data, last)["availability"]
                    [viewed(data, last)["final_time"]]
    /\ "B" \in viewed(data, last)["availability"][UNAVAILABLE_KEY]

----------------------------------------------------------------------------
(* The week keys from one day to the next                                  *)

\* the pair (this week, next week) of lines 127-129 on a day
live_week_keys(day) == <<get_start_of_week(day), get_start_of_week(day) + WeekLen>>

WeekKeysRollOnThursday ==
    today' = today + 1 =>
        IF weekday(today') = 3
        THEN /\ live_week_keys(today')[1] = live_week_keys(today)[1] + WeekLen
             /\ live_week_keys(today')[2] = live_week_keys(today)[2] + WeekLen
        ELSE live_week_keys(today') = live_week_keys(today)

\* C25: as the date advances one day at a time, the pair of live week keys
\* of the main page changes only when the new date is a Thursday, and then
\* both keys advance by exactly 7 days; on every other day the pair is the
\* one of the day before
C25_WeekKeysRollOnThursday == [][WeekKeysRollOnThursday]_vars

\* the same statement over the copy of get_start_of_week in the pages
PageWeekKeysRollOnThursday ==
    [][today' = today + 1 =>
        page_get_start_of_week(today')
            = page_get_start_of_week(today)
                + (IF weekday(today') = 3 THEN WeekLen ELSE 0)]_vars

----------------------------------------------------------------------------
(* Records of the running window                                           *)

\* the stored record under week key k is in the loaded team, with every
\* field it was stored with
record_survives(stored, loaded, k) ==
    /\ k \in DOMAIN loaded["schedules"]
    /\ keeps_stored_fields(stored[k], loaded["schedules"][k])

\* C26: a record stored under the key of the window that contains the day
\* of a load (key <= today < key + 7 days) is never dropped by load_data,
\* on any day of that window, and neither is the record of the window
\* after it: a record is pruned only once its window is over
C26_RunningWindowIsNeverDropped ==
    (last.op = "start" /\ last.ok) =>
        \A i \in DOMAIN data[last.s]["teams"] :
            LET stored == stored_schedules(last.raw["teams"][i], last.day)
            IN  \A k \in {weekKey(last.day), weekKey(last.day + WeekLen)}
                            \cap DOMAIN stored :
                    record_survives(stored, data[last.s]["teams"][i], k)

\* the same statement for the loads of every day but Monday
RunningWindowIsKeptButOnMonday ==
    (last.op = "start" /\ last.ok /\ weekday(last.day) # 0) =>
        \A i \in DOMAIN data[last.s]["teams"] :
            LET stored == stored_schedules(last.raw["teams"][i], last.day)
            IN  \A k \in {weekKey(last.day), weekKey(last.day + WeekLen)}
                            \cap DOMAIN stored :
                    record_survives(stored, data[last.s]["teams"][i], k)

----------------------------------------------------------------------------
(* The weekly reset                                                        *)

ResetOnlyOnceOnMonday ==
    (last'.op = "start" /\ last' # last) =>
        LET loaded == load_data(store, today, last'.read_ok)
            d == data'[last'.s]
            marker == strftime_Ymd(today)
            due == /\ weekday(today) = 0
                   /\ get(loaded, "weekly_reset_marker", <<>>) # marker
        IN  /\ (d # loaded \/ store' # store \/ last'.saved) => due
            /\ (due /\ members_is_dict(loaded["members"])) =>
                    /\ last'.saved
                    /\ d["weekly_reset_marker"] = marker
                    /\ store' = d
                    /\ \A n \in DOMAIN d["members"] :
                            d["members"][n]["weekly_availability"] = <<>>
            /\ ~last'.saved => (d = loaded /\ store' = store)

\* C27: reset_weekly_availability_if_monday modifies and saves the data
\* only when today is a Monday and weekly_reset_marker differs from today's
\* date; it then sets the marker to today, so that a second call on the
\* same day over the resulting data changes nothing and saves nothing, and
\* on any other weekday the data is returned unchanged without a save
C27_ResetOnlyOnceOnMonday == [][ResetOnlyOnceOnMonday]_vars

\* a second session started on the Monday of a reset: it loaded the marker
\* the first one stored, changed nothing and saved nothing
C27_Witness ==
    /\ last.op = "start" /\ last.ok /\ ~last.saved
    /\ weekday(last.day) = 0
    /\ last.raw # None
    /\ get(last.raw, "weekly_reset_marker", <<>>) = strftime_Ymd(last.day)
    /\ store = last.raw
    /\ data[last.s]["members"] = last.raw["members"]
    /\ \E n \in DOMAIN data[last.s]["members"] :
            data[last.s]["members"][n]["weekly_availability"] = <<>>

----------------------------------------------------------------------------
(* The final time after a slot edit                                        *)

\* C28: a slot edit that changes the time of at least one day sets
\* final_time of the record to "" unconditionally, also when the day and
\* the time of the slot that was final are left as they were
C28_EditAlwaysResetsFinalTime ==
    (last.op = "edit" /\ last.changed_days # {}) =>
        viewed(data, last)["final_time"] = <<>>

\* an edit changed one day and kept the slot that was the final time, with
\* its responses; the final time is empty all the same
C28_Witness ==
    /\ last.op = "edit" /\ last.changed_days # {}
    /\ last.old_final_time # <<>>
    /\ last.old_final_time \in DOMAIN viewed(data, last)["availability"]
    /\ viewed(data, last)["availability"][last.old_final_time] # {}
    /\ viewed(data, last)["final_time"] = <<>>

----------------------------------------------------------------------------
(* The copies of get_start_of_week                                         *)

\* C29: all copies of get_start_of_week, of the main page and of every
\* page module, return the same date for every date, so that on any day
\* every page derives the same two week keys and a team created on a page
\* carries exactly the week keys the loader of the main page keeps
C29_AllCopiesAgree ==
    /\ page_get_start_of_week(today) = get_start_of_week(today)
    /\ ai_page_get_start_of_week(today) = get_start_of_week(today)
    /\ {page_start_of_this_week_str(today), page_start_of_next_week_str(today)}
            = valid_week_keys(today)
    /\ last.op = "page_add_team" =>
            DOMAIN last.team["schedules"] = valid_week_keys(last.day)

\* the copies of the page modules agree with each other on every day
PageCopiesAgree ==
    page_get_start_of_week(today) = ai_page_get_start_of_week(today)

\* every copy agrees with the main page on every day but Monday
CopiesAgreeButOnMonday ==
    weekday(today) # 0 =>
        /\ page_get_start_of_week(today) = get_start_of_week(today)
        /\ ai_page_get_start_of_week(today) = get_start_of_week(today)

----------------------------------------------------------------------------
(* The stored AI teams                                                     *)

AiTeamsAreWrittenByTheAiPageOnly ==
    last' # last =>
        IF last'.op = "ai_save"
        THEN load_ai_teams(store', TRUE) = last'.ai_data
        ELSE load_ai_teams(store', TRUE) = load_ai_teams(store, TRUE)

\* C30: the AI teams are stored apart from the manual teams: after a
\* save_ai_teams of the AI page the stored ai_teams is the one the page
\* wrote, and a save of teams or members by the main page or by a manual
\* team page, in any interleaving with it, never changes ai_teams
C30_AiTeamsAreWrittenByTheAiPageOnly == [][AiTeamsAreWrittenByTheAiPageOnly]_vars

\* the write of the AI page alone: it sets ai_teams and leaves every other
\* key of the stored document as it was
AiSaveLeavesTheRestAlone ==
    [][(last' # last /\ last'.op = "ai_save") =>
        /\ load_ai_teams(store', TRUE) = last'.ai_data
        /\ page_load_data(store', TRUE)["teams"]
                = page_load_data(store, TRUE)["teams"]
        /\ page_load_data(store', TRUE)["members"]
                = page_load_data(store, TRUE)["members"]]_vars

\* the run of a manual team page, which reads and writes in one run,
\* keeps the stored ai_teams
PageSaveKeepsAiTeams ==
    [][(last' # last /\ last'.op = "page_add_team") =>
        load_ai_teams(store', TRUE) = load_ai_teams(store, TRUE)]_vars

====
